---------------------------- MODULE Spec2Model ----------------------------
(***************************************************************************)
(* A model of easy_equities_client/accounts/parsers.py: the three page     *)
(* parsers (account overview, holdings, transaction history) and the pure  *)
(* string conversions they rest on.                                        *)
(*                                                                         *)
(* A Python str is a sequence of one-character strings, so that strip,     *)
(* replace, index, rindex, split and slicing are computed, not assumed.    *)
(* A Python dict is a function whose DOMAIN is the set of its keys.        *)
(* An Optional value is the empty sequence (None) or a one-element         *)
(* sequence.  A call that raises ends the run with `outcome` set to the    *)
(* exception's type and nothing returned.                                  *)
(***************************************************************************)
EXTENDS Integers, Sequences, FiniteSets, TLC

VARIABLES
    pc,           \* position of the running call
    page,         \* the parsed page handed to the parser
    outcome,      \* "running", "ok", or the type of the exception raised
    field,        \* the field a HoldingFieldNotFoundException names, or ""
    result,       \* the list the call returns (empty unless outcome = "ok")
    work,         \* the call's local list under construction
    acc,          \* the records the call has built so far
    idx,          \* the loop index of the call
    run,          \* holdings: which of the two calls on the same page runs
    prev,         \* holdings: outcome and result of the first call
    amount_str,   \* transaction history: the local amount_str
    multiplier    \* transaction history: the local multiplier

vars == <<pc, page, outcome, field, result, work, acc, idx, run, prev,
          amount_str, multiplier>>

-----------------------------------------------------------------------------
(* Python str and list helpers *)

\* str.isspace() for one character (the whitespace of the modelled alphabet)
IsSpace(c) == c \in {" ", "\t"}

RECURSIVE LStrip(_)
\* str.lstrip()
LStrip(s) == IF s # <<>> /\ IsSpace(Head(s)) THEN LStrip(Tail(s)) ELSE s

RECURSIVE RStrip(_)
\* str.rstrip()
RStrip(s) ==
    IF s # <<>> /\ IsSpace(s[Len(s)]) THEN RStrip(SubSeq(s, 1, Len(s) - 1)) ELSE s

\* str.strip()
Strip(s) == RStrip(LStrip(s))

\* bool(s) for a str
Truthy(s) == s # <<>>

RECURSIVE Remove(_, _)
\* s.replace(c, '') for a one-character c
Remove(s, c) ==
    IF s = <<>> THEN <<>>
    ELSE IF Head(s) = c THEN Remove(Tail(s), c)
         ELSE <<Head(s)>> \o Remove(Tail(s), c)

\* c in s
Contains(s, c) == \E k \in 1..Len(s) : s[k] = c

\* s.startswith(t) at 1-based position k
MatchAt(s, t, k) ==
    /\ k >= 1
    /\ k + Len(t) - 1 <= Len(s)
    /\ \A j \in 1..Len(t) : s[k + j - 1] = t[j]

\* every 1-based position at which t occurs in s
Occurrences(s, t) == {k \in 1..Len(s) : MatchAt(s, t, k)}

SetMin(S) == CHOOSE x \in S : \A y \in S : x <= y
SetMax(S) == CHOOSE x \in S : \A y \in S : x >= y

\* all sequences over S of length at most n
SeqsUpTo(S, n) == UNION {[1..k -> S] : k \in 0..n}

RECURSIVE Concat(_)
\* ''.join(parts)
Concat(parts) ==
    IF parts = <<>> THEN <<>> ELSE Head(parts) \o Concat(Tail(parts))

\* a call's value, or the exception it raises
Ok(v) == [ok |-> TRUE, val |-> v, exc |-> "ok"]
Raise(e) == [ok |-> FALSE, val |-> <<>>, exc |-> e]

-----------------------------------------------------------------------------
(* Account overview page *)

MaxContainers == 3

CurrencyValues == {<<>>, <<" ">>, <<"Z">>, <<" ", "Z">>}
IdValues == {<<"7">>, <<"8", " ">>}

\* the attrs dict of a container's parent: each of the two attributes is
\* there or not
ParentAttrs ==
    UNION {
        {a \in [K -> CurrencyValues \cup IdValues] :
            /\ ("data-tradingcurrencyid" \in K
                    => a["data-tradingcurrencyid"] \in CurrencyValues)
            /\ ("data-id" \in K => a["data-id"] \in IdValues)} :
        K \in SUBSET {"data-tradingcurrencyid", "data-id"}}

\* a node found by find_all(attrs={"id": "trust-account-types"})
AccountDivs == [text : {<<" ", "T", "\t">>}, parent_attrs : ParentAttrs]

AccountPages == SeqsUpTo(AccountDivs, MaxContainers)

\* `if not trading_currency` on the value of attrs.get(...): None and ''
\* are falsy
NoTradingCurrencyStrict(attrs) == "data-tradingcurrencyid" \notin DOMAIN attrs

NoTradingCurrency(attrs) ==
    \/ "data-tradingcurrencyid" \notin DOMAIN attrs
    \/ ~Truthy(attrs["data-tradingcurrencyid"])

\* extract_account_info: Ok(<<>>) is None, Ok(<<account>>) an Account
extract_account_info(account_div) ==
    LET attrs == account_div.parent_attrs IN
    IF NoTradingCurrency(attrs) THEN Ok(<<>>)
    ELSE IF "data-id" \notin DOMAIN attrs THEN Raise("KeyError")
    ELSE Ok(<<[name |-> Strip(account_div.text),
               trading_currency_id |-> Strip(attrs["data-tradingcurrencyid"]),
               id |-> Strip(attrs["data-id"])]>>)

InitAccounts ==
    /\ page \in AccountPages
    /\ pc = "extract"
    /\ outcome = "running"
    /\ field = ""
    /\ result = <<>>
    /\ work = <<>>
    /\ acc = <<>>
    /\ idx = 1
    /\ run = 1
    /\ prev = <<>>
    /\ amount_str = <<>>
    /\ multiplier = 0

\* the inner comprehension: extract_account_info on the next container
ExtractAccountInfoStep ==
    /\ pc = "extract"
    /\ idx <= Len(page)
    /\ LET r == extract_account_info(page[idx]) IN
        IF r.ok
        THEN /\ work' = Append(work, r.val)
             /\ idx' = idx + 1
             /\ UNCHANGED <<pc, outcome>>
        ELSE /\ pc' = "done"
             /\ outcome' = r.exc
             /\ UNCHANGED <<work, idx>>
    /\ UNCHANGED <<page, field, result, acc, run, prev, amount_str, multiplier>>

\* the outer comprehension: keep the accounts that are not None, and return
FilterAccounts ==
    /\ pc = "extract"
    /\ idx > Len(page)
    /\ result' = Concat(work)
    /\ outcome' = "ok"
    /\ pc' = "done"
    /\ UNCHANGED <<page, field, work, acc, idx, run, prev, amount_str, multiplier>>

NextAccounts == ExtractAccountInfoStep \/ FilterAccounts

SpecAccounts == InitAccounts /\ [][NextAccounts]_vars

-----------------------------------------------------------------------------
(* Claims about the account overview page *)

\* the parent carries the trading-currency attribute, whatever its value
CarriesCurrency(div) == "data-tradingcurrencyid" \in DOMAIN div.parent_attrs

\* the parent carries a trading-currency attribute that is not the empty string
HasCurrency(div) ==
    /\ CarriesCurrency(div)
    /\ div.parent_attrs["data-tradingcurrencyid"] # <<>>

\* the parent carries a trading-currency attribute with a non-blank value
HasNonBlankCurrency(div) ==
    /\ CarriesCurrency(div)
    /\ Strip(div.parent_attrs["data-tradingcurrencyid"]) # <<>>

LacksId(div) == "data-id" \notin DOMAIN div.parent_attrs

\* C1 as stated: every page ends without an exception, with one Account per
\* container whose parent carries the trading-currency attribute.
C1_AsClaimed ==
    pc = "done" =>
        /\ outcome = "ok"
        /\ Len(result) = Len(SelectSeq(page, CarriesCurrency))

\* C1 amended: a container qualifies when its parent's trading-currency
\* attribute is present and not the empty string.  If some qualifying
\* container's parent has no data-id the call raises KeyError and returns
\* nothing; otherwise it returns exactly one Account per qualifying container,
\* in document order, with trimmed name, currency and id (the empty list when
\* none qualifies).
C1_Amended ==
    pc = "done" =>
        LET q == SelectSeq(page, HasCurrency) IN
        IF \E k \in 1..Len(q) : LacksId(q[k])
        THEN outcome = "KeyError" /\ result = <<>>
        ELSE /\ outcome = "ok"
             /\ Len(result) = Len(q)
             /\ \A k \in 1..Len(q) :
                    /\ result[k].name = Strip(q[k].text)
                    /\ result[k].trading_currency_id
                           = Strip(q[k].parent_attrs["data-tradingcurrencyid"])
                    /\ result[k].id = Strip(q[k].parent_attrs["data-id"])

\* C1 witness: a three-container page whose middle container lacks the
\* attribute returned two accounts, the first container's first.
C1_Witness ==
    /\ pc = "done"
    /\ outcome = "ok"
    /\ Len(page) = 3
    /\ ~CarriesCurrency(page[2])
    /\ Len(result) = 2
    /\ result[1].id = <<"7">>
    /\ result[2].id = <<"8">>

\* C8 as stated: a call that returns never holds an Account whose
\* trading_currency_id is empty, and returns exactly the containers whose
\* trading-currency attribute is present and not blank.
C8_AsClaimed ==
    (pc = "done" /\ outcome = "ok") =>
        /\ \A k \in 1..Len(result) : result[k].trading_currency_id # <<>>
        /\ Len(result) = Len(SelectSeq(page, HasNonBlankCurrency))

-----------------------------------------------------------------------------
(* Holdings page: the DOM of one matched node *)

MaxDataRows == 3

\* an attrs dict with no key
EmptyDict == [k \in {} |-> <<>>]

\* a sub-node: its text, its attrs dict and its first nested span (Optional:
\* the span's attrs dict)
TextNode(t) == [text |-> t, attrs |-> EmptyDict, span |-> <<>>]
ImgNode(attrs) == [text |-> <<>>, attrs |-> attrs, span |-> <<>>]
CollapseNode(span) == [text |-> <<>>, attrs |-> EmptyDict, span |-> span]

\* a node of class holding-inner-container: its parent's attrs dict and, by
\* class, the first descendant div.find(attrs={'class': ...}) returns
HoldingDiv(parent_attrs, nm, value, img_attrs, span) ==
    [parent_attrs |-> parent_attrs,
     sub |-> ("equity-image-as-text" :> TextNode(nm)
              @@ "purchase-value-cell" :> TextNode(value)
              @@ "current-value-cell" :> TextNode(value)
              @@ "current-price-cell" :> TextNode(value)
              @@ "instrument" :> ImgNode(img_attrs)
              @@ "collapse-container" :> CollapseNode(span))]

\* the same node without its descendant of class c
Without(div, c) ==
    [div EXCEPT !.sub = [k \in (DOMAIN div.sub) \ {c} |-> div.sub[k]]]

PlainParent == "class" :> <<"content-box">>
HeaderParent == "class" :> <<"row", "holding-table-header">>

Src(url) == "src" :> url
Span(url) == <<"data-detailviewurl" :> url>>

RowA1 == HoldingDiv(PlainParent, <<"A">>, <<"1">>,
                    Src(<<"/", "a", ".", "p", "n", "g">>), Span(<<"u", "=", "X">>))
RowA2 == HoldingDiv(PlainParent, <<" ", "A">>, <<"2">>,
                    Src(<<"/", "b", ".", "p", "n", "g">>), Span(<<"u", "=", "Y">>))
RowB == HoldingDiv(PlainParent, <<"B">>, <<"3">>,
                   Src(<<"/", "b", ".", "p", "n", "g">>), Span(<<"u", "=", "Y">>))
RowC == HoldingDiv(PlainParent, <<"C">>, <<"3">>,
                   Src(<<"/", "c", ".", "p", "n", "g">>), Span(<<"u", "=", "X">>))

GoodRows == {RowA1, RowA2, RowB, RowC}

\* a header row placed under a parent of class holding-table-header: it has
\* none of the field sub-nodes
HeaderRow == [parent_attrs |-> HeaderParent, sub |-> EmptyDict]

\* a data row whose parent has no class attribute
RowNoParentClass == [RowA1 EXCEPT !.parent_attrs = EmptyDict]

\* data rows with one sub-node missing
DefectRows ==
    {Without(RowB, "equity-image-as-text"),
     Without(RowB, "purchase-value-cell"),
     Without(RowB, "instrument"),
     Without(RowB, "collapse-container")}

SampleRows == GoodRows \cup {HeaderRow, RowNoParentClass} \cup DefectRows

\* the nodes soup.find_all(attrs={'class': 'holding-inner-container'}) returns:
\* none, or a first node followed by up to MaxDataRows nodes
HoldingPages ==
    {<<>>} \cup
    {<<first>> \o rest :
        first \in {HeaderRow, RowA1}, rest \in SeqsUpTo(SampleRows, MaxDataRows)}

-----------------------------------------------------------------------------
(* HoldingDivParser *)

\* div.find(attrs={'class': c}).text.strip()
CellText(div, c) ==
    IF c \notin DOMAIN div.sub THEN Raise("AttributeError")
    ELSE Ok(Strip(div.sub[c].text))

\* HoldingDivParser.name
name(div) == CellText(div, "equity-image-as-text")

\* HoldingDivParser.purchase_value
purchase_value(div) == CellText(div, "purchase-value-cell")

\* HoldingDivParser.current_value
current_value(div) == CellText(div, "current-value-cell")

\* HoldingDivParser.current_price
current_price(div) == CellText(div, "current-price-cell")

\* HoldingDivParser.img
img(div) ==
    IF "instrument" \notin DOMAIN div.sub THEN Raise("AttributeError")
    ELSE IF "src" \notin DOMAIN div.sub["instrument"].attrs THEN Raise("KeyError")
    ELSE Ok(div.sub["instrument"].attrs["src"])

PNG == <<".", "p", "n", "g">>

\* url[url.rindex('/') + 1 : url.index('.png')] on a str: rindex and index
\* raise ValueError when there is no match; the slice is empty when its stop is
\* not after its start.  Positions are 1-based here.
SliceCode(url) ==
    LET slashes == Occurrences(url, <<"/">>)
        pngs == Occurrences(url, PNG)
    IN  IF slashes = {} \/ pngs = {} THEN Raise("ValueError")
        ELSE Ok(SubSeq(url, SetMax(slashes) + 1, SetMin(pngs) - 1))

\* HoldingDivParser.contract_code
contract_code(div) == IF img(div).ok THEN SliceCode(img(div).val) ELSE img(div)

\* HoldingDivParser.view_url
view_url(div) ==
    IF "collapse-container" \notin DOMAIN div.sub THEN Raise("AttributeError")
    ELSE LET span == div.sub["collapse-container"].span IN
         IF span = <<>> THEN Raise("AttributeError")
         ELSE IF "data-detailviewurl" \notin DOMAIN span[1] THEN Raise("KeyError")
         ELSE Ok(span[1]["data-detailviewurl"])

\* s.split('=')[-1]: what follows the last '=', or all of s
LastPart(s) ==
    LET eqs == Occurrences(s, <<"=">>) IN
    IF eqs = {} THEN s ELSE SubSeq(s, SetMax(eqs) + 1, Len(s))

\* HoldingDivParser.isin
isin(div) == IF view_url(div).ok THEN Ok(LastPart(view_url(div).val)) ELSE view_url(div)

\* the list `fields` of to_dict, in its order
fields ==
    <<"name", "contract_code", "purchase_value", "current_value",
      "current_price", "img", "view_url", "isin">>

\* getattr(self, f)
GetAttr(div, f) ==
    CASE f = "name" -> name(div)
      [] f = "contract_code" -> contract_code(div)
      [] f = "purchase_value" -> purchase_value(div)
      [] f = "current_value" -> current_value(div)
      [] f = "current_price" -> current_price(div)
      [] f = "img" -> img(div)
      [] f = "view_url" -> view_url(div)
      [] f = "isin" -> isin(div)

\* HoldingDivParser.to_dict: the Holding, or HoldingFieldNotFoundException for
\* the first field of `fields` whose property raises
to_dict(div) ==
    LET bad == {k \in 1..Len(fields) : ~GetAttr(div, fields[k]).ok} IN
    IF bad # {}
    THEN [ok |-> FALSE, val |-> <<>>, exc |-> "HoldingFieldNotFoundException",
          field |-> fields[SetMin(bad)]]
    ELSE [ok |-> TRUE, exc |-> "ok", field |-> "",
          val |-> [f \in {fields[k] : k \in 1..Len(fields)} |-> GetAttr(div, f).val]]

-----------------------------------------------------------------------------
(* AccountHoldingsParser.extract_holdings *)

\* 'holding-table-header' in holding_div.parent.attrs['class']
IsHeader(div) ==
    \E k \in 1..Len(div.parent_attrs["class"]) :
        div.parent_attrs["class"][k] = "holding-table-header"

\* the comprehension over holdings_divs[1:]: KeyError at the first node whose
\* parent has no class attribute, else the nodes that are not header rows
FilterDivs(pg) ==
    LET rest == SubSeq(pg, 2, Len(pg))
        NotHeader(div) == ~IsHeader(div)
    IN  IF \E k \in 1..Len(rest) : "class" \notin DOMAIN rest[k].parent_attrs
        THEN Raise("KeyError")
        ELSE Ok(SelectSeq(rest, NotHeader))

\* an equality that also compares the ISIN
HoldingEqByNameAndIsin(a, b) ==
    name(a).val = name(b).val /\ isin(a) = isin(b)

\* HoldingDivParser.__eq__ (with __hash__ on the same key)
HoldingEq(a, b) == name(a).val = name(b).val

RECURSIVE SortBy(_, _)
\* the indices of S as a sequence, by increasing rank
SortBy(S, rank) ==
    IF S = {} THEN <<>>
    ELSE LET m == CHOOSE i \in S : \A j \in S : rank[i] <= rank[j]
         IN  <<m>> \o SortBy(S \ {m}, rank)

\* the first of equal elements stays, by position in the sequence ds
FirstOfEqual(ds) ==
    {i \in 1..Len(ds) : \A j \in 1..(i - 1) : ~HoldingEq(ds[j], ds[i])}

\* a collection that collapses equal elements only while it is iterated, so
\* that the element kept depends on the hash order
SetOfUnstable(ds, seed) ==
    LET byHash == SortBy(1..Len(ds), seed)
        shuffled == [k \in 1..Len(ds) |-> ds[byHash[k]]]
        order == SortBy(FirstOfEqual(shuffled), [k \in 1..Len(ds) |-> k])
    IN  [k \in 1..Len(order) |-> shuffled[order[k]]]

\* set(ds), as the sequence its iteration yields: an element equal to one
\* already in the set is not added, and the iteration order is the order of the
\* hashes, which the hash seed decides (seed ranks the elements)
SetOf(ds, seed) ==
    LET order == SortBy(FirstOfEqual(ds), seed)
    IN  [k \in 1..Len(order) |-> ds[order[k]]]

InitHoldings ==
    /\ page \in HoldingPages
    /\ pc = "filter"
    /\ outcome = "running"
    /\ field = ""
    /\ result = <<>>
    /\ work = <<>>
    /\ acc = <<>>
    /\ idx = 1
    /\ run = 1
    /\ prev = <<>>
    /\ amount_str = <<>>
    /\ multiplier = 0

\* line 139, the list: find_all, the slice [1:] and the header test
BuildList ==
    /\ pc = "filter"
    /\ LET r == FilterDivs(page) IN
        IF r.ok
        THEN /\ work' = r.val
             /\ pc' = "set"
             /\ UNCHANGED outcome
        ELSE /\ pc' = "done"
             /\ outcome' = r.exc
             /\ UNCHANGED work
    /\ UNCHANGED <<page, field, result, acc, idx, run, prev, amount_str, multiplier>>

\* line 139, set(...): __hash__ reads name of every element
BuildSet ==
    /\ pc = "set"
    /\ IF \E k \in 1..Len(work) : ~name(work[k]).ok
       THEN /\ pc' = "done"
            /\ outcome' = "AttributeError"
            /\ UNCHANGED work
       ELSE /\ \E seed \in Permutations(1..Len(work)) : work' = SetOf(work, seed)
            /\ pc' = "to_dict"
            /\ UNCHANGED outcome
    /\ UNCHANGED <<page, field, result, acc, idx, run, prev, amount_str, multiplier>>

\* line 140: to_dict on the next element of the set
ToDictStep ==
    /\ pc = "to_dict"
    /\ idx <= Len(work)
    /\ LET r == to_dict(work[idx]) IN
        IF r.ok
        THEN /\ acc' = Append(acc, r.val)
             /\ idx' = idx + 1
             /\ UNCHANGED <<pc, outcome, field>>
        ELSE /\ pc' = "done"
             /\ outcome' = r.exc
             /\ field' = r.field
             /\ UNCHANGED <<acc, idx>>
    /\ UNCHANGED <<page, result, work, run, prev, amount_str, multiplier>>

\* line 140: the list is complete and returned
ReturnHoldings ==
    /\ pc = "to_dict"
    /\ idx > Len(work)
    /\ result' = acc
    /\ outcome' = "ok"
    /\ pc' = "done"
    /\ UNCHANGED <<page, field, work, acc, idx, run, prev, amount_str, multiplier>>

\* extract_holdings is called again on the same page content
SecondCall ==
    /\ pc = "done"
    /\ run = 1
    /\ prev' = <<[outcome |-> outcome, field |-> field, result |-> result]>>
    /\ run' = 2
    /\ pc' = "filter"
    /\ outcome' = "running"
    /\ field' = ""
    /\ result' = <<>>
    /\ work' = <<>>
    /\ acc' = <<>>
    /\ idx' = 1
    /\ UNCHANGED <<page, amount_str, multiplier>>

NextHoldings ==
    BuildList \/ BuildSet \/ ToDictStep \/ ReturnHoldings \/ SecondCall

SpecHoldings == InitHoldings /\ [][NextHoldings]_vars

-----------------------------------------------------------------------------
(* Claims about the holdings page *)

\* the matched nodes after the first
DataRows(pg) == SubSeq(pg, 2, Len(pg))

\* the parent's class list contains the header-row marker (a parent without a
\* class list has no marker)
HasHeaderMarker(div) == "class" \in DOMAIN div.parent_attrs /\ IsHeader(div)

NoHeaderMarker(div) == ~HasHeaderMarker(div)

\* the fields of a row that cannot be extracted
Unextractable(div) ==
    {fields[k] : k \in {j \in 1..Len(fields) : ~GetAttr(div, fields[j]).ok}}

\* a row every field of which extracts, under a parent that has a class list
\* without the header marker
IsGoodDataRow(div) ==
    /\ "class" \in DOMAIN div.parent_attrs
    /\ ~IsHeader(div)
    /\ Unextractable(div) = {}

\* how often x occurs in the sequence s
CountIn(s, x) == Cardinality({k \in 1..Len(s) : s[k] = x})

\* the two sequences hold the same elements, each as often
SameBag(s, t) ==
    /\ Len(s) = Len(t)
    /\ \A k \in 1..Len(s) : CountIn(s, s[k]) = CountIn(t, s[k])

\* C9 as stated: building the list of kept nodes never fails, and the kept
\* nodes are exactly the nodes after the first whose parent's class list does
\* not contain 'holding-table-header', in particular every node whose parent
\* has no class list.
C9_AsClaimed ==
    /\ (pc = "done" => outcome # "KeyError")
    /\ (pc = "set" => work = SelectSeq(DataRows(page), NoHeaderMarker))

\* the kept rows that are not dropped as a repetition of an earlier name
Retained(kept) ==
    {i \in 1..Len(kept) :
        \/ ~name(kept[i]).ok
        \/ \A j \in 1..(i - 1) : name(kept[j]).ok => ~HoldingEq(kept[j], kept[i])}

\* C2 as stated: on a page whose list of kept nodes is built, if a retained
\* row has a field that cannot be extracted, the call ends with
\* HoldingFieldNotFoundException naming such a field and returns nothing.
C2_AsClaimed ==
    (pc = "done" /\ FilterDivs(page).ok) =>
        LET kept == FilterDivs(page).val
            broken == {i \in Retained(kept) : Unextractable(kept[i]) # {}}
        IN  broken # {} =>
                /\ outcome = "HoldingFieldNotFoundException"
                /\ result = <<>>
                /\ \E i \in broken : field \in Unextractable(kept[i])

\* C3: when every node after the first is a data row that extracts, the call
\* returns as many records as there are distinct names among those rows, and
\* no two records share a name.
C3_OnePerName ==
    (pc = "done" /\ page # <<>>
        /\ \A k \in 1..Len(DataRows(page)) : IsGoodDataRow(DataRows(page)[k])) =>
        /\ outcome = "ok"
        /\ Len(result)
             = Cardinality({name(DataRows(page)[k]).val : k \in 1..Len(DataRows(page))})
        /\ \A i, j \in 1..Len(result) :
               i # j => result[i]["name"] # result[j]["name"]

\* C3 witness: a header row, two rows that share the name A but differ in
\* contract code and ISIN, and a row named B gave two records.
C3_Witness ==
    /\ pc = "done"
    /\ outcome = "ok"
    /\ page = <<HeaderRow, RowA1, RowA2, RowB>>
    /\ Len(result) = 2

\* C7: the second call on the same page ends as the first did (a list, or a
\* failure), and returns the same records as often; the order of the list and
\* the field a failure names are not part of the statement.
C7_Idempotent ==
    (run = 2 /\ pc = "done") =>
        /\ (outcome = "ok") <=> (prev[1].outcome = "ok")
        /\ SameBag(result, prev[1].result)

\* C7 witness: two calls on a page with a name collision returned the same two
\* records in different orders.
C7_Witness ==
    /\ run = 2
    /\ pc = "done"
    /\ outcome = "ok"
    /\ page = <<HeaderRow, RowA1, RowB, RowA2>>
    /\ Len(result) = 2
    /\ result # prev[1].result

-----------------------------------------------------------------------------
(* Transaction history: date.fromisoformat and float *)

Digits == {"0", "1", "2", "3", "4", "5", "6", "7", "8", "9"}

\* int(c) for a digit
DigitVal(c) ==
    CASE c = "0" -> 0 [] c = "1" -> 1 [] c = "2" -> 2 [] c = "3" -> 3
      [] c = "4" -> 4 [] c = "5" -> 5 [] c = "6" -> 6 [] c = "7" -> 7
      [] c = "8" -> 8 [] c = "9" -> 9

RECURSIVE NatOf(_)
\* int(ds) for a run of digits ('' counts 0)
NatOf(ds) ==
    IF ds = <<>> THEN 0
    ELSE 10 * NatOf(SubSeq(ds, 1, Len(ds) - 1)) + DigitVal(ds[Len(ds)])

AllDigits(ds) == \A k \in 1..Len(ds) : ds[k] \in Digits

IsLeap(y) == (y % 4 = 0 /\ y % 100 # 0) \/ y % 400 = 0

DaysIn(y, m) ==
    IF m = 2 THEN (IF IsLeap(y) THEN 29 ELSE 28)
    ELSE IF m \in {4, 6, 9, 11} THEN 30 ELSE 31

\* a parser that also takes MM/DD/YYYY
LenientDate(s) ==
    IF Len(s) = 10 /\ s[3] = "/" /\ s[6] = "/"
    THEN Ok([year |-> NatOf(SubSeq(s, 7, 10)), month |-> NatOf(SubSeq(s, 1, 2)),
             day |-> NatOf(SubSeq(s, 4, 5))])
    ELSE IF Len(s) = 10 /\ s[5] = "-" /\ s[8] = "-"
    THEN Ok([year |-> NatOf(SubSeq(s, 1, 4)), month |-> NatOf(SubSeq(s, 6, 7)),
             day |-> NatOf(SubSeq(s, 9, 10))])
    ELSE Raise("ValueError")

\* date.fromisoformat on the YYYY-MM-DD form: ValueError for any other shape
\* and for a year, month or day out of range.  (The other ISO 8601 forms a
\* newer interpreter also reads are not among the modelled inputs.)
fromisoformat(s) ==
    IF ~(/\ Len(s) = 10
         /\ s[5] = "-" /\ s[8] = "-"
         /\ AllDigits(SubSeq(s, 1, 4))
         /\ AllDigits(SubSeq(s, 6, 7))
         /\ AllDigits(SubSeq(s, 9, 10)))
    THEN Raise("ValueError")
    ELSE LET y == NatOf(SubSeq(s, 1, 4))
             m == NatOf(SubSeq(s, 6, 7))
             d == NatOf(SubSeq(s, 9, 10))
         IN  IF y >= 1 /\ m \in 1..12 /\ d >= 1 /\ d <= DaysIn(y, m)
             THEN Ok([year |-> y, month |-> m, day |-> d])
             ELSE Raise("ValueError")

\* digits with at most one '.', at least one digit
IsDecimalText(t) ==
    /\ \A k \in 1..Len(t) : t[k] \in Digits \cup {"."}
    /\ Cardinality(Occurrences(t, <<".">>)) <= 1
    /\ \E k \in 1..Len(t) : t[k] \in Digits

RECURSIVE Normalise(_, _)
\* a decimal mant / 10^scale without trailing zeros in its fraction, so that
\* equal numbers are equal records
Normalise(mant, scale) ==
    IF scale > 0 /\ mant % 10 = 0 THEN Normalise(mant \div 10, scale - 1)
    ELSE [mant |-> mant, scale |-> scale]

\* the value of a decimal text
DecimalValue(t) ==
    LET dots == Occurrences(t, <<".">>)
        scale == IF dots = {} THEN 0 ELSE Len(t) - SetMin(dots)
    IN  Normalise(NatOf(Remove(t, ".")), scale)

\* multiplier * x
Times(m, x) == [mant |-> m * x.mant, scale |-> x.scale]

\* float(s) on the decimal-point syntax: surrounding whitespace is ignored, one
\* sign may lead, and anything else is a ValueError.  (Exponents, underscores,
\* inf and nan need characters outside the modelled alphabet.)
float(s) ==
    LET t == Strip(s)
        signed == t # <<>> /\ t[1] \in {"+", "-"}
        body == IF signed THEN Tail(t) ELSE t
    IN  IF ~IsDecimalText(body) THEN Raise("ValueError")
        ELSE Ok(Times(IF signed /\ t[1] = "-" THEN -1 ELSE 1, DecimalValue(body)))

-----------------------------------------------------------------------------
(* Transaction history: the DEBIT/CREDIT conversion, lines 165-177 *)

MaxAmountLen == 4

AmountAlphabet == {"R", "-", " ", "\t", "1", "0", "."}

DebitExample == <<"R", "-", "1", " ", "2", "3", "4", ".", "5", "6">>
CreditExample == <<"R", "1", " ", "2", "3", "4", ".", "5", "6">>

\* the text of a DEBIT/CREDIT cell
AmountTexts == SeqsUpTo(AmountAlphabet, MaxAmountLen) \cup {DebitExample, CreditExample}

\* a sign test that only looks at the first character
HasMinusAtStart(s) == s # <<>> /\ s[1] = "-"

\* '-' in amount_str
HasMinus(s) == Contains(s, "-")

\* the multiplier of lines 166-170
MultiplierOf(s) == IF HasMinus(s) THEN -1 ELSE 1

\* amount_str after lines 166-172
Cleaned(s) == Remove(IF HasMinus(s) THEN Remove(s, "-") ELSE s, " ")

\* lines 174-177 on the cleaned string
SplitAmount(m, s) ==
    IF s = <<>> THEN Raise("IndexError")
    ELSE IF ~float(Tail(s)).ok THEN Raise("ValueError")
    ELSE Ok([CURRENCY |-> s[1], AMOUNT |-> Times(m, float(Tail(s)).val)])

InitAmount ==
    /\ page \in AmountTexts
    /\ pc = "read"
    /\ outcome = "running"
    /\ field = ""
    /\ result = <<>>
    /\ work = <<>>
    /\ acc = <<>>
    /\ idx = 1
    /\ run = 1
    /\ prev = <<>>
    /\ amount_str = <<>>
    /\ multiplier = 0

\* lines 161 and 165: the cell's trimmed text
ReadAmount ==
    /\ pc = "read"
    /\ amount_str' = Strip(page)
    /\ pc' = "sign"
    /\ UNCHANGED <<page, outcome, field, result, work, acc, idx, run, prev, multiplier>>

\* lines 166-170
SignStep ==
    /\ pc = "sign"
    /\ multiplier' = MultiplierOf(amount_str)
    /\ amount_str' = IF HasMinus(amount_str) THEN Remove(amount_str, "-") ELSE amount_str
    /\ pc' = "spaces"
    /\ UNCHANGED <<page, outcome, field, result, work, acc, idx, run, prev>>

\* line 172
RemoveSpaces ==
    /\ pc = "spaces"
    /\ amount_str' = Remove(amount_str, " ")
    /\ pc' = "split"
    /\ UNCHANGED <<page, outcome, field, result, work, acc, idx, run, prev, multiplier>>

\* lines 174-177
SplitStep ==
    /\ pc = "split"
    /\ LET r == SplitAmount(multiplier, amount_str) IN
        /\ outcome' = r.exc
        /\ result' = r.val
    /\ pc' = "done"
    /\ UNCHANGED <<page, field, work, acc, idx, run, prev, amount_str, multiplier>>

NextAmount == ReadAmount \/ SignStep \/ RemoveSpaces \/ SplitStep

SpecAmount == InitAmount /\ [][NextAmount]_vars

-----------------------------------------------------------------------------
(* Claims about the DEBIT/CREDIT conversion *)

\* the characters of s that are kept when the given ones are dropped
Dropping(s, drop) == LET Keep(c) == c \notin drop IN SelectSeq(s, Keep)

\* C4 as stated: with the '-' characters and all whitespace removed from the
\* cell's trimmed text, the first character is CURRENCY, the rest is a decimal
\* magnitude, and AMOUNT is the magnitude with sign -1 if the text holds a '-'
\* and +1 otherwise; the call fails only if nothing is left for the currency
\* or the rest is no decimal.
C4_AsClaimed ==
    pc = "done" =>
        LET body == Dropping(Strip(page), {"-", " ", "\t"}) IN
        IF body # <<>> /\ IsDecimalText(Tail(body))
        THEN /\ outcome = "ok"
             /\ result.CURRENCY = body[1]
             /\ result.AMOUNT
                  = Times(IF \E k \in 1..Len(page) : page[k] = "-" THEN -1 ELSE 1,
                          DecimalValue(Tail(body)))
        ELSE outcome # "ok"

\* C4 amended: as stated, but only '-' and the space character are removed.
\* Any other whitespace stays: float() ignores it around the magnitude, and
\* inside the magnitude, or in front of the currency, it makes the call fail.
\* 'R-1 234.56' gives R and -1234.56, 'R1 234.56' gives R and 1234.56.
C4_Amended ==
    /\ pc = "done" =>
        LET body == Dropping(Strip(page), {"-", " "}) IN
        IF body = <<>> THEN outcome = "IndexError" /\ result = <<>>
        ELSE IF ~IsDecimalText(Strip(Tail(body)))
        THEN outcome = "ValueError" /\ result = <<>>
        ELSE /\ outcome = "ok"
             /\ result.CURRENCY = body[1]
             /\ result.AMOUNT
                  = Times(IF \E k \in 1..Len(page) : page[k] = "-" THEN -1 ELSE 1,
                          DecimalValue(Strip(Tail(body))))
    /\ (pc = "done" /\ page = DebitExample) =>
           result = [CURRENCY |-> "R", AMOUNT |-> [mant |-> -123456, scale |-> 2]]
    /\ (pc = "done" /\ page = CreditExample) =>
           result = [CURRENCY |-> "R", AMOUNT |-> [mant |-> 123456, scale |-> 2]]

\* C4 witness: 'R-1 234.56' was converted to R and -1234.56.
C4_Witness ==
    /\ pc = "done"
    /\ page = DebitExample
    /\ outcome = "ok"
    /\ multiplier = -1
    /\ result.AMOUNT.mant = -123456

-----------------------------------------------------------------------------
(* Transaction history page *)

MaxTxRows == 3

\* a td: its attrs dict and its text
Cell(title, text) == [attrs |-> ("data-title" :> title), text |-> text]
UntitledCell(text) == [attrs |-> EmptyDict, text |-> text]

IsoDay == <<"2", "0", "2", "3", "-", "0", "5", "-", "0", "1">>
LeapDay == <<" ", "2", "0", "2", "4", "-", "0", "2", "-", "2", "9">>
UsDay == <<"0", "5", "/", "0", "1", "/", "2", "0", "2", "3">>
NoSuchDay == <<"2", "0", "2", "3", "-", "0", "2", "-", "2", "9">>

\* the tr rows the modelled pages are made of
GoodTxRows ==
    {<<Cell("DATE", IsoDay), Cell("DEBIT/CREDIT", DebitExample)>>,
     <<Cell("DATE", LeapDay), Cell("COMMENT", <<"c">>),
       Cell("DEBIT/CREDIT", <<"R", "5", ".", "5", "0">>)>>}

BadTxRows ==
    {<<Cell("DATE", UsDay), Cell("DEBIT/CREDIT", CreditExample)>>,
     <<Cell("DATE", NoSuchDay), Cell("DEBIT/CREDIT", CreditExample)>>,
     <<Cell("DEBIT/CREDIT", CreditExample)>>,
     <<Cell("DATE", IsoDay)>>,
     <<Cell("DATE", IsoDay), Cell("DEBIT/CREDIT", <<"R">>)>>,
     <<Cell("DATE", IsoDay), Cell("DEBIT/CREDIT", <<>>)>>,
     <<Cell("DATE", IsoDay), Cell("DEBIT/CREDIT", <<"R", "1", "\t", "0">>)>>,
     <<Cell("DATE", IsoDay), Cell("DEBIT/CREDIT", DebitExample),
       UntitledCell(<<"c">>)>>}

SampleTxRows == GoodTxRows \cup BadTxRows

\* the page: table is None or the table found, whose tbody is None or the
\* list of its tr rows
HistoryPages ==
    {[table |-> <<>>], [table |-> <<[tbody |-> <<>>]>>]}
    \cup {[table |-> <<[tbody |-> <<rows>>]>>] : rows \in SeqsUpTo(SampleTxRows, MaxTxRows)}

\* a lookup that takes a missing table for an empty one
FindRowsLenient(pg) ==
    IF pg.table = <<>> \/ pg.table[1].tbody = <<>> THEN Ok(<<>>)
    ELSE Ok(pg.table[1].tbody[1])

\* lines 156 and 158: soup.find(...) is None without the table, and .tbody is
\* None without a tbody; an attribute of None is an AttributeError
FindRows(pg) ==
    IF pg.table = <<>> THEN Raise("AttributeError")
    ELSE IF pg.table[1].tbody = <<>> THEN Raise("AttributeError")
    ELSE Ok(pg.table[1].tbody[1])

\* lines 159-161: the dict of the row's cells, a later cell of the same title
\* replacing an earlier one; KeyError for a td without data-title
CellsOf(row) ==
    IF \E k \in 1..Len(row) : "data-title" \notin DOMAIN row[k].attrs
    THEN Raise("KeyError")
    ELSE Ok([t \in {row[k].attrs["data-title"] : k \in 1..Len(row)} |->
                Strip(row[SetMax({k \in 1..Len(row) :
                                     row[k].attrs["data-title"] = t})].text)])

\* lines 165-177 on the value of row_data['DEBIT/CREDIT']
ParseAmount(s) == SplitAmount(MultiplierOf(s), Cleaned(s))

\* lines 159-180 for one row: the augmented row_data, or the exception
RowData(row) ==
    LET cells == CellsOf(row) IN
    IF ~cells.ok THEN cells
    ELSE IF "DATE" \notin DOMAIN cells.val THEN Raise("KeyError")
    ELSE IF ~fromisoformat(cells.val["DATE"]).ok THEN Raise("ValueError")
    ELSE IF "DEBIT/CREDIT" \notin DOMAIN cells.val THEN Raise("KeyError")
    ELSE LET a == ParseAmount(cells.val["DEBIT/CREDIT"]) IN
         IF ~a.ok THEN a
         ELSE Ok([t \in DOMAIN cells.val \cup {"CURRENCY", "AMOUNT"} |->
                    CASE t = "DATE" -> fromisoformat(cells.val["DATE"]).val
                      [] t = "CURRENCY" -> a.val.CURRENCY
                      [] t = "AMOUNT" -> a.val.AMOUNT
                      [] OTHER -> cells.val[t]])

InitHistory ==
    /\ page \in HistoryPages
    /\ pc = "find"
    /\ outcome = "running"
    /\ field = ""
    /\ result = <<>>
    /\ work = <<>>
    /\ acc = <<>>
    /\ idx = 1
    /\ run = 1
    /\ prev = <<>>
    /\ amount_str = <<>>
    /\ multiplier = 0

\* lines 154-158: the table, its tbody and its rows
FindTable ==
    /\ pc = "find"
    /\ LET r == FindRows(page) IN
        IF r.ok
        THEN /\ work' = r.val
             /\ pc' = "rows"
             /\ UNCHANGED outcome
        ELSE /\ pc' = "done"
             /\ outcome' = r.exc
             /\ UNCHANGED work
    /\ UNCHANGED <<page, field, result, acc, idx, run, prev, amount_str, multiplier>>

\* lines 158-180: one pass of the loop
RowStep ==
    /\ pc = "rows"
    /\ idx <= Len(work)
    /\ LET r == RowData(work[idx]) IN
        IF r.ok
        THEN /\ acc' = Append(acc, r.val)
             /\ idx' = idx + 1
             /\ UNCHANGED <<pc, outcome>>
        ELSE /\ pc' = "done"
             /\ outcome' = r.exc
             /\ UNCHANGED <<acc, idx>>
    /\ UNCHANGED <<page, field, result, work, run, prev, amount_str, multiplier>>

\* line 182
ReturnRows ==
    /\ pc = "rows"
    /\ idx > Len(work)
    /\ result' = acc
    /\ outcome' = "ok"
    /\ pc' = "done"
    /\ UNCHANGED <<page, field, work, acc, idx, run, prev, amount_str, multiplier>>

NextHistory == FindTable \/ RowStep \/ ReturnRows

SpecHistory == InitHistory /\ [][NextHistory]_vars

-----------------------------------------------------------------------------
(* Claims about the transaction history page *)

\* the page has the table and a tbody
HasBody(pg) == pg.table # <<>> /\ pg.table[1].tbody # <<>>

\* the texts of the row's cells titled t
TextsOf(row, t) ==
    {Strip(row[k].text) :
        k \in {j \in 1..Len(row) :
                  "data-title" \in DOMAIN row[j].attrs /\ row[j].attrs["data-title"] = t}}

\* YYYY-MM-DD naming a day of the calendar
IsIsoDateText(s) ==
    /\ Len(s) = 10
    /\ \A k \in 1..10 : IF k \in {5, 8} THEN s[k] = "-" ELSE s[k] \in Digits
    /\ NatOf(SubSeq(s, 1, 4)) >= 1
    /\ NatOf(SubSeq(s, 6, 7)) \in 1..12
    /\ NatOf(SubSeq(s, 9, 10)) \in 1..DaysIn(NatOf(SubSeq(s, 1, 4)), NatOf(SubSeq(s, 6, 7)))

\* a currency character followed by a decimal magnitude, once '-' and the
\* spaces are dropped
IsAmountText(s) ==
    LET body == Dropping(s, {"-", " "}) IN
    body # <<>> /\ IsDecimalText(Strip(Tail(body)))

\* every cell has a title, and the row has one DATE cell holding an ISO date
\* and one DEBIT/CREDIT cell holding an amount
WellFormedRow(row) ==
    /\ \A k \in 1..Len(row) : "data-title" \in DOMAIN row[k].attrs
    /\ \E d \in TextsOf(row, "DATE") : TextsOf(row, "DATE") = {d} /\ IsIsoDateText(d)
    /\ \E a \in TextsOf(row, "DEBIT/CREDIT") :
           TextsOf(row, "DEBIT/CREDIT") = {a} /\ IsAmountText(a)

\* C5: on a page with the table and its body, a row that is not well-formed,
\* at any position, makes the call fail and return no row; when every row is
\* well-formed the call returns one record per row, in the order of the rows.
\* (Well-formed is what lines 163-177 read: an ISO date, and an amount as in
\* the amended C4; a td without data-title makes a row malformed too.)
C5_AllOrNothing ==
    (pc = "done" /\ HasBody(page)) =>
        LET rows == page.table[1].tbody[1] IN
        IF \E k \in 1..Len(rows) : ~WellFormedRow(rows[k])
        THEN outcome \notin {"ok", "running"} /\ result = <<>>
        ELSE /\ outcome = "ok"
             /\ Len(result) = Len(rows)
             /\ \A k \in 1..Len(rows) :
                    /\ TextsOf(rows[k], "DATE")
                         = {d \in TextsOf(rows[k], "DATE") :
                               /\ NatOf(SubSeq(d, 1, 4)) = result[k]["DATE"].year
                               /\ NatOf(SubSeq(d, 6, 7)) = result[k]["DATE"].month
                               /\ NatOf(SubSeq(d, 9, 10)) = result[k]["DATE"].day}
                    /\ result[k]["DEBIT/CREDIT"] \in TextsOf(rows[k], "DEBIT/CREDIT")

\* C5 witness: two well-formed rows were read and the third, whose DATE is
\* 05/01/2023, made the call fail with nothing returned.
C5_Witness ==
    /\ pc = "done"
    /\ HasBody(page)
    /\ Len(page.table[1].tbody[1]) = 3
    /\ page.table[1].tbody[1][3][1].text = UsDay
    /\ Len(acc) = 2
    /\ outcome = "ValueError"
    /\ result = <<>>

\* C6: a page without the table always ends in a failure, never in a list; a
\* page with the table and a body of zero rows returns the empty list.
C6_BrokenIsNotEmpty ==
    /\ (pc = "done" /\ page.table = <<>>) => outcome \notin {"ok", "running"}
    /\ (pc = "done" /\ HasBody(page) /\ page.table[1].tbody[1] = <<>>) =>
           outcome = "ok" /\ result = <<>>

\* C6 witness: the call on a page without the table ended in AttributeError.
C6_Witness ==
    /\ pc = "done"
    /\ page.table = <<>>
    /\ outcome = "AttributeError"

-----------------------------------------------------------------------------
(* HoldingDivParser.contract_code on its own *)

MaxUrlParts == 4

\* the pieces image URLs are put together from
UrlParts == {<<"/">>, PNG, <<"c">>, <<"h">>}

ImageUrls == {Concat(parts) : parts \in SeqsUpTo(UrlParts, MaxUrlParts)}

InitContractCode ==
    /\ page \in {[RowB EXCEPT !.sub["instrument"] = ImgNode(Src(url))] : url \in ImageUrls}
    /\ pc = "code"
    /\ outcome = "running"
    /\ field = ""
    /\ result = <<>>
    /\ work = <<>>
    /\ acc = <<>>
    /\ idx = 1
    /\ run = 1
    /\ prev = <<>>
    /\ amount_str = <<>>
    /\ multiplier = 0

\* the property is read once
ReadContractCode ==
    /\ pc = "code"
    /\ LET r == contract_code(page) IN
        /\ outcome' = r.exc
        /\ result' = r.val
    /\ pc' = "done"
    /\ UNCHANGED <<page, field, work, acc, idx, run, prev, amount_str, multiplier>>

NextContractCode == ReadContractCode

SpecContractCode == InitContractCode /\ [][NextContractCode]_vars

\* the src of the row's image
UrlOf(div) == div.sub["instrument"].attrs["src"]

\* C10 as stated: the read fails when the URL has no '/' or no '.png', and
\* for a URL that has a '/' and ends in '.png', with no other '.png' after its
\* last '/', it returns what stands between the last '/' and that suffix,
\* whether or not '.png' also occurs before the last '/'.
C10_AsClaimed ==
    pc = "done" =>
        LET url == UrlOf(page)
            slashes == Occurrences(url, <<"/">>)
            pngs == Occurrences(url, PNG)
        IN  /\ (slashes = {} \/ pngs = {}) => outcome # "ok"
            /\ (/\ slashes # {}
                /\ {k \in pngs : k > SetMax(slashes)} = {Len(url) - 3}) =>
                   /\ outcome = "ok"
                   /\ result = SubSeq(url, SetMax(slashes) + 1, Len(url) - 4)

=============================================================================
